---------------------------- MODULE Spec2Model ----------------------------
(***************************************************************************)
(* Model of cuspatial::experimental::trajectory_distance_and_speed         *)
(* (cpp/src/trajectory/trajectory_distance_speed.cu): host-side            *)
(* validation, the two-level type dispatch, the launch of                  *)
(* compute_distance_and_speed_kernel with one thread per trajectory, and   *)
(* the stream synchronisation before the result table is returned.         *)
(*                                                                         *)
(* Columns are records [type, data, null_count]; data is a function over   *)
(* 0..size-1 so that indices are the source's indices.  A double is a      *)
(* fixed-point integer in units of 1/Fx.                                   *)
(***************************************************************************)
EXTENDS Integers, Naturals, Sequences, FiniteSets, TLC

VARIABLES
    x,          \* column_view x
    y,          \* column_view y
    timestamp,  \* column_view timestamp
    length,     \* column_view length
    offset,     \* column_view offset
    pc,         \* position of the host call
    Element,    \* template argument chosen by dispatch_element
    Timestamp,  \* template argument chosen by dispatch_timestamp
    cols,       \* std::vector<std::unique_ptr<column>> cols: <<distance, speed>>
    thr,        \* per launched thread: its position and locals
    reads,      \* per launched thread: the (column, index) pairs it has read
    fault       \* the kernel hit an illegal address

vars == <<x, y, timestamp, length, offset, pc, Element, Timestamp, cols, thr,
          reads, fault>>

inputs == <<x, y, timestamp, length, offset>>

-----------------------------------------------------------------------------
(* Bounds of the model *)

MaxPoints == 3

MaxGroups == 2

BlockSize == 2

ShapeMax == 2

(* Program constants *)

MinPoints == 2

KmToM == 1000

KmPerMsToMps == 1000000

(* One unit of a double: 1.0 is Fx, the resolution is 1/Fx *)
Fx == 100

TooFewPoints == (-2) * Fx

ZeroElapsed == (-3) * Fx

-----------------------------------------------------------------------------
(* cudf type ids and traits *)

TimestampTypes ==
    {"TIMESTAMP_DAYS", "TIMESTAMP_SECONDS", "TIMESTAMP_MILLISECONDS",
     "TIMESTAMP_MICROSECONDS", "TIMESTAMP_NANOSECONDS"}

FloatingTypes == {"FLOAT32", "FLOAT64"}

IntegerTypes == {"INT32", "INT64"}

is_timestamp(t) == t \in TimestampTypes

is_floating_point(t) == t \in FloatingTypes

(* sizeof the C++ type of a type id *)
Width(t) ==
    IF t \in {"INT32", "FLOAT32", "TIMESTAMP_DAYS"} THEN 4 ELSE 8

(* duration_cast ratio of a timestamp type's tick to one millisecond:       *)
(* ms = ticks * MsNum / MsDen                                              *)
MsNum(t) ==
    CASE t = "TIMESTAMP_DAYS" -> 86400000
      [] t = "TIMESTAMP_SECONDS" -> 1000
      [] OTHER -> 1

MsDen(t) ==
    CASE t = "TIMESTAMP_MICROSECONDS" -> 1000
      [] t = "TIMESTAMP_NANOSECONDS" -> 1000000
      [] OTHER -> 1

-----------------------------------------------------------------------------
(* Columns *)

Col(t, d, n) == [type |-> t, data |-> d, null_count |-> n]

size(c) == Cardinality(DOMAIN c.data)

is_empty(c) == size(c) = 0

Arr(n, f(_)) == [i \in 0..(n - 1) |-> f(i)]

Min(a, b) == IF a < b THEN a ELSE b

-----------------------------------------------------------------------------
(* Values the model draws array contents from *)

PointVals == {<<0, 0>>, <<3, 4>>}

TsVals == {0, 1000}

GarbageVals == {0, 3}

(* What a read of memory that holds no element of the requested type may   *)
(* yield                                                                   *)
Garbage(T) == IF is_timestamp(T) THEN TsVals ELSE GarbageVals

(* column_device_view::element<T>(i): no bounds or type check on the       *)
(* device.  The byte range [i*sizeof(T), (i+1)*sizeof(T)) is read from the *)
(* column's buffer.  Outside the buffer the read either traps or yields    *)
(* whatever is there; inside it, it yields the element only when T is the  *)
(* column's own type.                                                      *)
InBounds(c, T, i) ==
    i >= 0 /\ (i + 1) * Width(T) <= size(c) * Width(c.type)

element(c, T, i) ==
    IF InBounds(c, T, i)
    THEN IF c.type = T
         THEN {[ok |-> TRUE, v |-> c.data[i]]}
         ELSE {[ok |-> TRUE, v |-> g] : g \in Garbage(T)}
    ELSE {[ok |-> FALSE, v |-> 0]} \cup {[ok |-> TRUE, v |-> g] : g \in Garbage(T)}

-----------------------------------------------------------------------------
(* Arithmetic of the kernel *)

(* double division, rounded toward zero at the model's resolution *)
Quot(a, b) ==
    LET q(m, n) == m \div n
    IN  IF b > 0
        THEN IF a >= 0 THEN q(a, b) ELSE -q(-a, b)
        ELSE IF a >= 0 THEN -q(a, -b) ELSE q(-a, -b)

(* A conversion to milliseconds that rounds toward zero instead *)
TruncMs(T, d) == Quot(d * MsNum(T), MsDen(T))

(* simt::std::chrono::floor<timestamp_ms::duration>(d).count() for a       *)
(* duration d of timestamp type T: rounds toward negative infinity         *)
FloorMs(T, d) == (d * MsNum(T)) \div MsDen(T)

RECURSIVE SqrtSearch(_, _, _)
SqrtSearch(n, lo, hi) ==
    IF hi - lo <= 1 THEN lo
    ELSE LET mid == (lo + hi) \div 2
         IN  IF mid * mid <= n THEN SqrtSearch(n, mid, hi)
             ELSE SqrtSearch(n, lo, mid)

(* sqrt of a number n of squared coordinate units, as a double *)
Sqrt(n) == SqrtSearch(n * Fx * Fx, 0, n * Fx + 1)

(* sqrt(pow(x1 - x0, 2) + pow(y1 - y0, 2)) *)
SegmentKm(x0, x1, y0, y1) ==
    Sqrt((x1 - x0) * (x1 - x0) + (y1 - y0) * (y1 - y0))

(* The two tests in the opposite order *)
ClassifyElapsedFirst(len, time_ms) ==
    IF time_ms = 0 THEN "zero"
    ELSE IF len < MinPoints THEN "few"
    ELSE "normal"

(* the branch a thread takes *)
Classify(len, time_ms) ==
    IF len < MinPoints THEN "few"
    ELSE IF time_ms = 0 THEN "zero"
    ELSE "normal"

(* A loop that runs one segment too far *)
LoopCondInclusive(i, end) == i <= end

(* for (i = idx; i < end; ++i) *)
LoopCond(i, end) == i < end

(* dist_km * 1000 *)
DistanceM(dist_km) == dist_km * KmToM

(* A speed taken over the magnitude of the elapsed time *)
SpeedMpsAbs(dist_km, time_ms) ==
    Quot(dist_km * KmPerMsToMps, IF time_ms < 0 THEN -time_ms ELSE time_ms)

(* dist_km * 1000000 / time_ms.count() *)
SpeedMps(dist_km, time_ms) == Quot(dist_km * KmPerMsToMps, time_ms)

(* Every thread reading the first descriptor entry *)
DescIndexZero(tid) == 0

(* the descriptor entry thread tid reads, and the output slot it writes *)
DescIndex(tid) == tid

OutSlot(tid) == tid

-----------------------------------------------------------------------------
(* Host side *)

(* A validation without the null-count test *)
ValidationIgnoresNulls ==
    /\ ~is_empty(x) /\ ~is_empty(length)
    /\ size(x) = size(y) /\ size(x) = size(timestamp)
    /\ size(length) = size(offset)
    /\ is_timestamp(timestamp.type)
    /\ length.type = "INT32"
    /\ offset.type = "INT32"
    /\ size(offset) > 0 /\ size(x) >= size(offset)

(* the CUDF_EXPECTS of trajectory_distance_and_speed, in order *)
ValidationPasses ==
    /\ ~is_empty(x) /\ ~is_empty(length)
    /\ size(x) = size(y) /\ size(x) = size(timestamp)
    /\ size(length) = size(offset)
    /\ is_timestamp(timestamp.type)
    /\ length.type = "INT32"
    /\ offset.type = "INT32"
    /\ x.null_count = 0 /\ y.null_count = 0
    /\ timestamp.null_count = 0 /\ offset.null_count = 0
    /\ size(offset) > 0 /\ size(x) >= size(offset)

(* trajectory_distance_and_speed up to the type_dispatcher call *)
Validate ==
    /\ pc = "validate"
    /\ pc' = IF ValidationPasses THEN "dispatch_element" ELSE "logic_error"
    /\ UNCHANGED <<inputs, Element, Timestamp, cols, thr, reads, fault>>

(* type_dispatcher(x.type(), dispatch_element{}, ...) *)
DispatchElement ==
    /\ pc = "dispatch_element"
    /\ Element' = x.type
    /\ pc' = IF is_floating_point(x.type) THEN "dispatch_timestamp"
             ELSE "logic_error"
    /\ UNCHANGED <<inputs, Timestamp, cols, thr, reads, fault>>

(* type_dispatcher(timestamp.type(), dispatch_timestamp<Element>{}, ...) *)
DispatchTimestamp ==
    /\ pc = "dispatch_timestamp"
    /\ Timestamp' = timestamp.type
    /\ pc' = IF is_timestamp(timestamp.type) THEN "compute" ELSE "logic_error"
    /\ UNCHANGED <<inputs, Element, cols, thr, reads, fault>>

(* grid_1d{size, block_size}: the threads of whole blocks *)
NumThreads(n) == ((n + BlockSize - 1) \div BlockSize) * BlockSize

NewThread ==
    [pc |-> "start", len |-> 0, idx |-> 0, end |-> 0, time_ms |-> 0,
     i |-> 0, dist_km |-> 0]

(* compute_distance_and_speed: allocate both columns, launch the kernel *)
Launch ==
    /\ pc = "compute"
    /\ cols' = <<Arr(size(offset), LAMBDA g : <<>>),
                 Arr(size(offset), LAMBDA g : <<>>)>>
    /\ thr' = Arr(NumThreads(size(offset)), LAMBDA t : NewThread)
    /\ reads' = Arr(NumThreads(size(offset)), LAMBDA t : {})
    /\ pc' = "kernel"
    /\ UNCHANGED <<inputs, Element, Timestamp, fault>>

(* A return that does not wait for the stream *)
KernelCompleteUnchecked == TRUE

(* every launched thread has run to the end of the kernel *)
KernelComplete == \A t \in DOMAIN thr : thr[t].pc = "done"

(* cudaStreamSynchronize, CHECK_CUDA, return the table *)
Synchronize ==
    /\ pc = "kernel"
    /\ fault \/ KernelComplete
    /\ pc' = IF fault THEN "cuda_error" ELSE "returned"
    /\ UNCHANGED <<inputs, Element, Timestamp, cols, thr, reads, fault>>

-----------------------------------------------------------------------------
(* Device side: compute_distance_and_speed_kernel, thread t *)

(* distance is cols.at(0), speed is cols.at(1); a slot holds its writes *)
Store(c, t, dist, spd) ==
    [c EXCEPT ![1][OutSlot(t)] = Append(@, [by |-> t, val |-> dist]),
              ![2][OutSlot(t)] = Append(@, [by |-> t, val |-> spd])]

(* from the tid test to the sentinel writes or the start of the loop *)
KernelEnter(t) ==
    /\ pc = "kernel" /\ ~fault
    /\ thr[t].pc = "start"
    /\ IF ~(t < size(length))
       THEN /\ thr' = [thr EXCEPT ![t].pc = "done"]
            /\ UNCHANGED <<cols, reads, fault>>
       ELSE LET len == length.data[DescIndex(t)]
                idx == offset.data[DescIndex(t)]
                end == idx + len - 1
            IN  /\ reads' = [reads EXCEPT ![t] =
                       @ \cup {<<"timestamp", end>>, <<"timestamp", idx>>}]
                /\ \E te \in element(timestamp, Timestamp, end),
                      ti \in element(timestamp, Timestamp, idx) :
                     IF ~te.ok \/ ~ti.ok
                     THEN /\ fault' = TRUE
                          /\ thr' = [thr EXCEPT ![t].pc = "trap"]
                          /\ UNCHANGED cols
                     ELSE LET time_ms == FloorMs(Timestamp, te.v - ti.v)
                              k == Classify(len, time_ms)
                              loc == [thr[t] EXCEPT !.len = len, !.idx = idx,
                                         !.end = end, !.time_ms = time_ms]
                          IN  /\ UNCHANGED fault
                              /\ IF k = "few"
                                 THEN /\ cols' = Store(cols, t, TooFewPoints,
                                                       TooFewPoints)
                                      /\ thr' = [thr EXCEPT ![t] =
                                             [loc EXCEPT !.pc = "done"]]
                                 ELSE IF k = "zero"
                                 THEN /\ cols' = Store(cols, t, ZeroElapsed,
                                                       ZeroElapsed)
                                      /\ thr' = [thr EXCEPT ![t] =
                                             [loc EXCEPT !.pc = "done"]]
                                 ELSE /\ thr' = [thr EXCEPT ![t] =
                                             [loc EXCEPT !.pc = "loop",
                                                  !.i = idx, !.dist_km = 0]]
                                      /\ UNCHANGED cols
    /\ UNCHANGED <<inputs, pc, Element, Timestamp>>

(* one test of the loop condition: an iteration, or the final writes *)
KernelLoop(t) ==
    /\ pc = "kernel" /\ ~fault
    /\ thr[t].pc = "loop"
    /\ LET i == thr[t].i
       IN  IF LoopCond(i, thr[t].end)
           THEN /\ reads' = [reads EXCEPT ![t] =
                       @ \cup {<<"x", i>>, <<"x", i + 1>>,
                               <<"y", i>>, <<"y", i + 1>>}]
                /\ \E x0 \in element(x, Element, i),
                      x1 \in element(x, Element, i + 1),
                      y0 \in element(y, Element, i),
                      y1 \in element(y, Element, i + 1) :
                     IF ~x0.ok \/ ~x1.ok \/ ~y0.ok \/ ~y1.ok
                     THEN /\ fault' = TRUE
                          /\ thr' = [thr EXCEPT ![t].pc = "trap"]
                     ELSE /\ UNCHANGED fault
                          /\ thr' = [thr EXCEPT
                                 ![t].dist_km =
                                     @ + SegmentKm(x0.v, x1.v, y0.v, y1.v),
                                 ![t].i = i + 1]
                /\ UNCHANGED cols
           ELSE /\ cols' = Store(cols, t, DistanceM(thr[t].dist_km),
                                 SpeedMps(thr[t].dist_km, thr[t].time_ms))
                /\ thr' = [thr EXCEPT ![t].pc = "done"]
                /\ UNCHANGED <<reads, fault>>
    /\ UNCHANGED <<inputs, pc, Element, Timestamp>>

-----------------------------------------------------------------------------
(* The calls the model makes *)

Call(cx, cy, ct, cl, co) ==
    /\ x = cx /\ y = cy /\ timestamp = ct /\ length = cl /\ offset = co
    /\ pc = "validate"
    /\ Element = "none" /\ Timestamp = "none"
    /\ cols = <<>> /\ thr = <<>> /\ reads = <<>>
    /\ fault = FALSE

CanonX(i) == IF i % 3 = 0 THEN 0 ELSE 3

CanonY(i) == IF i % 3 = 1 THEN 4 ELSE 0

CanonTs(i) == 2 * i

RECURSIVE SumTo(_, _)
SumTo(f, n) == IF n = 0 THEN 0 ELSE f[n - 1] + SumTo(f, n - 1)

(* the data model's invariant for one descriptor entry over n points *)
InRange(len, off, n) == len >= 0 /\ off >= 0 /\ off + len - 1 < n

(* One trajectory over arbitrary points, its descriptor entry in range *)
InitOneGroup ==
    \E n \in 1..MaxPoints :
      \E p \in [0..(n - 1) -> PointVals],
         ts \in [0..(n - 1) -> TsVals],
         T \in {"TIMESTAMP_MILLISECONDS", "TIMESTAMP_NANOSECONDS"},
         len \in 0..n, off \in 0..n :
        /\ InRange(len, off, n)
        /\ Call(Col("FLOAT64", Arr(n, LAMBDA i : p[i][1]), 0),
                Col("FLOAT64", Arr(n, LAMBDA i : p[i][2]), 0), Col(T, ts, 0),
                Col("INT32", <<>> @@ (0 :> len), 0),
                Col("INT32", <<>> @@ (0 :> off), 0))

(* One trajectory over a fixed path, its descriptor entry out of range *)
InitOutOfRange ==
    \E n \in 1..MaxPoints :
      \E ts \in [0..(n - 1) -> TsVals],
         T \in {"TIMESTAMP_MILLISECONDS", "TIMESTAMP_NANOSECONDS"},
         len \in 0..n, off \in (-1)..n :
        /\ ~InRange(len, off, n)
        /\ Call(Col("FLOAT64", Arr(n, CanonX), 0),
                Col("FLOAT64", Arr(n, CanonY), 0), Col(T, ts, 0),
                Col("INT32", <<>> @@ (0 :> len), 0),
                Col("INT32", <<>> @@ (0 :> off), 0))

(* Several trajectories laid out back to back over a fixed path, in any    *)
(* rotation of the descriptor's order.                                     *)
InitBatch ==
    \E n \in 2..MaxPoints :
      \E G \in 2..Min(n, MaxGroups) :
        \E lens \in [0..(G - 1) -> 0..n], first \in 0..(G - 1),
           ts \in [0..(n - 1) -> TsVals],
           T \in {"TIMESTAMP_MILLISECONDS", "TIMESTAMP_MICROSECONDS"} :
          /\ SumTo(lens, G) <= n
          /\ LET rot == [g \in 0..(G - 1) |-> lens[(g + first) % G]]
                 off == [g \in 0..(G - 1) |->
                            SumTo(rot, (g + G - first) % G)]
             IN  Call(Col("FLOAT64", Arr(n, CanonX), 0),
                      Col("FLOAT64", Arr(n, CanonY), 0),
                      Col(T, ts, 0), Col("INT32", lens, 0),
                      Col("INT32", off, 0))

(* Columns of any sizes, fixed contents *)
InitSizes ==
    \E nx \in 0..ShapeMax, ny \in 0..ShapeMax, nt \in 0..ShapeMax,
       nl \in 0..ShapeMax, no \in 0..ShapeMax :
      Call(Col("FLOAT64", Arr(nx, CanonX), 0),
           Col("FLOAT64", Arr(ny, CanonY), 0),
           Col("TIMESTAMP_MILLISECONDS", Arr(nt, CanonTs), 0),
           Col("INT32", Arr(nl, LAMBDA g : IF g < nx THEN nx - g ELSE 0), 0),
           Col("INT32", Arr(no, LAMBDA g : g), 0))

(* Columns of any types, with or without nulls, fixed sizes and contents *)
InitTypes ==
    \E xT \in {"INT32", "FLOAT32", "FLOAT64"},
       yT \in {"INT32", "FLOAT32", "FLOAT64"},
       tT \in {"INT64"} \cup TimestampTypes,
       lT \in IntegerTypes, oT \in IntegerTypes,
       nulls \in {"none", "x", "y", "timestamp", "length", "offset"} :
      LET nc(c) == IF nulls = c THEN 1 ELSE 0
      IN  Call(Col(xT, Arr(2, CanonX), nc("x")),
               Col(yT, Arr(2, CanonY), nc("y")),
               Col(tT, Arr(2, CanonTs), nc("timestamp")),
               Col(lT, Arr(1, LAMBDA g : 2), nc("length")),
               Col(oT, Arr(1, LAMBDA g : 0), nc("offset")))

Init ==
    InitOneGroup \/ InitOutOfRange \/ InitBatch \/ InitSizes \/ InitTypes

Next ==
    \/ Validate
    \/ DispatchElement
    \/ DispatchTimestamp
    \/ Launch
    \/ \E t \in DOMAIN thr : KernelEnter(t)
    \/ \E t \in DOMAIN thr : KernelLoop(t)
    \/ Synchronize

Spec == Init /\ [][Next]_vars

-----------------------------------------------------------------------------
(* Vocabulary of the properties *)

Launched == pc \in {"kernel", "returned", "cuda_error"}

Groups == DOMAIN offset.data

(* thread t has run the kernel to its end for trajectory t *)
Finished(t) ==
    /\ Launched
    /\ t \in DOMAIN thr /\ t \in Groups
    /\ thr[t].pc = "done"

(* trajectory g satisfies the data model: the columns have the types the   *)
(* kernel reads them with and the group's range lies inside the points     *)
GroupValid(g) ==
    /\ x.type = Element /\ y.type = Element /\ timestamp.type = Timestamp
    /\ InRange(length.data[g], offset.data[g], size(x))

(* slot g of both output columns was written once, with these values *)
Wrote(g, dist, spd) ==
    /\ cols[1][g] = <<[by |-> g, val |-> dist]>>
    /\ cols[2][g] = <<[by |-> g, val |-> spd]>>

(* timestamp[end] - timestamp[idx] of trajectory g, in the timestamp's own *)
(* ticks                                                                   *)
Elapsed(g) ==
    timestamp.data[offset.data[g] + length.data[g] - 1]
        - timestamp.data[offset.data[g]]

(* the sum of the segment lengths between points lo .. hi, left to right *)
RECURSIVE PathKm(_, _)
PathKm(lo, hi) ==
    IF hi <= lo THEN 0
    ELSE PathKm(lo, hi - 1)
           + SegmentKm(x.data[hi - 1], x.data[hi], y.data[hi - 1], y.data[hi])

GroupKm(g) == PathKm(offset.data[g], offset.data[g] + length.data[g] - 1)

-----------------------------------------------------------------------------
(* C1: a trajectory of fewer than two points (none, or one) gets exactly   *)
(* -2.0 in both distance and speed, whatever its timestamps and            *)
(* coordinates are; a one-point trajectory, whose elapsed time is zero,    *)
(* gets -2.0 and not -3.0.                                                 *)
C1_TooFewPoints ==
    \A t \in Groups :
        Finished(t) /\ length.data[t] < 2
            => Wrote(t, (-2) * Fx, (-2) * Fx)

C1_Witness ==
    /\ pc = "returned"
    /\ \E g \in Groups, h \in Groups :
        /\ length.data[g] = 0 /\ Wrote(g, (-2) * Fx, (-2) * Fx)
        /\ length.data[h] = 1 /\ Wrote(h, (-2) * Fx, (-2) * Fx)
        /\ GroupValid(h) /\ Elapsed(h) = 0

-----------------------------------------------------------------------------
(* C2, as claimed: a trajectory of two or more points whose elapsed time,  *)
(* truncated toward zero to whole milliseconds, is zero gets -3.0 in both  *)
(* outputs, also when its last timestamp is less than a millisecond        *)
(* earlier than its first.                                                 *)
C2_TruncatedElapsedZero ==
    \A t \in Groups :
        (/\ Finished(t) /\ GroupValid(t)
         /\ length.data[t] >= 2
         /\ Quot(Elapsed(t) * MsNum(timestamp.type),
                 MsDen(timestamp.type)) = 0)
            => Wrote(t, (-3) * Fx, (-3) * Fx)

(* C2, amended: the elapsed time is rounded toward negative infinity.  A   *)
(* trajectory of two or more points gets -3.0 in both outputs when its     *)
(* elapsed time is at least zero and below one millisecond; when its last  *)
(* timestamp is less than a millisecond earlier than its first, the        *)
(* elapsed time is -1 ms and it gets the normal case's outputs.            *)
C2_FlooredElapsedZero ==
    \A t \in Groups :
        (Finished(t) /\ GroupValid(t) /\ length.data[t] >= 2) =>
            LET ticks == Elapsed(t) * MsNum(timestamp.type)
                den == MsDen(timestamp.type)
            IN  /\ (0 <= ticks /\ ticks < den)
                       => Wrote(t, (-3) * Fx, (-3) * Fx)
                /\ (ticks < 0 /\ -ticks < den)
                       => Wrote(t, GroupKm(t) * 1000,
                                -(GroupKm(t) * 1000000))

C2_Witness ==
    \E t \in Groups :
        /\ Finished(t) /\ GroupValid(t) /\ length.data[t] >= 2
        /\ Elapsed(t) > 0
        /\ Elapsed(t) * MsNum(timestamp.type) < MsDen(timestamp.type)
        /\ Wrote(t, (-3) * Fx, (-3) * Fx)

-----------------------------------------------------------------------------
(* C3: a trajectory of two or more points with non-zero floored elapsed    *)
(* time elapsed_ms gets distance S * 1000 and speed                        *)
(* S * 1000000 / elapsed_ms, S being the left-to-right sum of the lengths  *)
(* of its length - 1 segments and of no other segment.                     *)
C3_DistanceAndSpeed ==
    \A t \in Groups :
        (/\ Finished(t) /\ GroupValid(t)
         /\ length.data[t] >= 2
         /\ FloorMs(timestamp.type, Elapsed(t)) # 0)
            => Wrote(t, GroupKm(t) * 1000,
                     Quot(GroupKm(t) * 1000000,
                          FloorMs(timestamp.type, Elapsed(t))))

(* two points (0,0) and (3,4) one second apart: 5000.0 and 5000.0 *)
C3_Witness ==
    /\ pc = "returned"
    /\ x.data = (0 :> 0 @@ 1 :> 3) /\ y.data = (0 :> 0 @@ 1 :> 4)
    /\ timestamp.type = "TIMESTAMP_MILLISECONDS"
    /\ timestamp.data = (0 :> 0 @@ 1 :> 1000)
    /\ length.data = (0 :> 2) /\ offset.data = (0 :> 0)
    /\ Wrote(0, 5000 * Fx, 5000 * Fx)

-----------------------------------------------------------------------------
(* C4: a call that violates a precondition (x, timestamp or length empty;  *)
(* sizes of x, y and timestamp not all equal; sizes of length and offset   *)
(* different; timestamp not of a timestamp type; length or offset not      *)
(* INT32; a null in x, y, timestamp or offset; fewer points than           *)
(* trajectories) ends in a validation error: no output column is ever      *)
(* allocated and no thread ever runs.                                      *)
PreconditionViolated ==
    \/ is_empty(x) \/ is_empty(timestamp) \/ is_empty(length)
    \/ size(x) # size(y) \/ size(y) # size(timestamp)
    \/ size(length) # size(offset)
    \/ timestamp.type \notin TimestampTypes
    \/ length.type # "INT32" \/ offset.type # "INT32"
    \/ x.null_count > 0 \/ y.null_count > 0
    \/ timestamp.null_count > 0 \/ offset.null_count > 0
    \/ size(x) < size(offset)

C4_ValidationBeforeWork ==
    PreconditionViolated =>
        /\ pc \in {"validate", "logic_error"}
        /\ cols = <<>> /\ thr = <<>> /\ reads = <<>>

C4_Witness ==
    /\ pc = "logic_error"
    /\ size(x) # size(y)
    /\ cols = <<>>

-----------------------------------------------------------------------------
(* C5, as claimed: a call with a trajectory whose range is out of range of *)
(* the point arrays is rejected by the validation; the kernel is never run *)
(* on such a batch.                                                        *)
C5_OutOfRangeRejected ==
    (\E g \in Groups \cap DOMAIN length.data :
        ~InRange(length.data[g], offset.data[g], size(x)))
        => ~Launched

-----------------------------------------------------------------------------
(* C6, as claimed: the kernel runs only when x and y are floating-point    *)
(* columns and timestamp is a timestamp column, and it reads each column   *)
(* with the column's own type.                                             *)
C6_DispatchFailsClosed ==
    Launched =>
        /\ is_floating_point(x.type) /\ is_floating_point(y.type)
        /\ is_timestamp(timestamp.type)
        /\ Element = x.type /\ Element = y.type
        /\ Timestamp = timestamp.type

-----------------------------------------------------------------------------
(* What trajectory g alone holds: its length and its own points and        *)
(* timestamps, numbered from 0.  Nothing of another trajectory, of the     *)
(* points outside the range or of the slot's position is in it.            *)
OwnView(g) ==
    [len |-> length.data[g],
     xs |-> Arr(length.data[g], LAMBDA k : x.data[offset.data[g] + k]),
     ys |-> Arr(length.data[g], LAMBDA k : y.data[offset.data[g] + k]),
     ts |-> Arr(length.data[g], LAMBDA k : timestamp.data[offset.data[g] + k]),
     T |-> timestamp.type]

RECURSIVE ViewKm(_, _)
ViewKm(v, k) ==
    IF k <= 0 THEN 0
    ELSE ViewKm(v, k - 1)
           + SegmentKm(v.xs[k - 1], v.xs[k], v.ys[k - 1], v.ys[k])

(* the pair <<distance, speed>> as a function of a view alone *)
ViewResult(v) ==
    IF v.len < 2 THEN <<(-2) * Fx, (-2) * Fx>>
    ELSE LET ms == FloorMs(v.T, v.ts[v.len - 1] - v.ts[0])
         IN  IF ms = 0 THEN <<(-3) * Fx, (-3) * Fx>>
             ELSE <<ViewKm(v, v.len - 1) * 1000,
                    Quot(ViewKm(v, v.len - 1) * 1000000, ms)>>

(* C7: in the returned table the pair (distance[g], speed[g]) is a         *)
(* function of trajectory g's own descriptor entry and own points only,    *)
(* whatever the other trajectories of the batch are (degenerate or not)    *)
(* and wherever the entry stands in the descriptor.                        *)
C7_OwnRangeOnly ==
    pc = "returned" =>
        \A g \in Groups :
            GroupValid(g) =>
                Wrote(g, ViewResult(OwnView(g))[1], ViewResult(OwnView(g))[2])

(* a normal trajectory beside a degenerate one, not in the first slot *)
C7_Witness ==
    /\ pc = "returned"
    /\ \E g \in Groups, h \in Groups :
        /\ g > h
        /\ GroupValid(g) /\ length.data[g] >= 2 /\ cols[1][g][1].val > 0
        /\ cols[2][g][1].val > 0
        /\ length.data[h] < 2 /\ Wrote(h, (-2) * Fx, (-2) * Fx)

-----------------------------------------------------------------------------
(* C8: in every interleaving, thread g writes distance[g] and speed[g]     *)
(* only, at most once each; a thread beyond the last trajectory reads and  *)
(* writes nothing; threads read input columns only and the input columns   *)
(* never change; and the table is returned only after every thread has     *)
(* finished, each slot of both columns written once by its own thread.     *)
C8_Slots ==
    Launched =>
        /\ DOMAIN cols = {1, 2}
        /\ \A c \in {1, 2} :
            /\ DOMAIN cols[c] = Groups
            /\ \A g \in Groups :
                /\ Len(cols[c][g]) <= 1
                /\ \A k \in DOMAIN cols[c][g] : cols[c][g][k].by = g
                /\ Len(cols[c][g]) = 1 => thr[g].pc = "done"
        /\ \A t \in DOMAIN thr :
            /\ \A r \in reads[t] : r[1] \in {"x", "y", "timestamp"}
            /\ t \notin Groups => reads[t] = {}
        /\ pc = "returned" =>
            /\ ~fault
            /\ \A t \in DOMAIN thr : thr[t].pc = "done"
            /\ \A g \in Groups : Len(cols[1][g]) = 1 /\ Len(cols[2][g]) = 1

C8_ExclusiveSlotsAndJoin ==
    [](C8_Slots) /\ [][inputs' = inputs]_vars

(* two trajectories reduced by threads that interleaved, then returned *)
C8_Witness ==
    /\ pc = "returned"
    /\ Cardinality(Groups) >= 2
    /\ \E g \in Groups : length.data[g] >= 2
    /\ \A g \in Groups : Len(cols[1][g]) = 1 /\ Len(cols[2][g]) = 1

-----------------------------------------------------------------------------
(* C9, as claimed: in a batch that passes validation and satisfies the     *)
(* data model (length >= 0, offset >= 0, offset + length - 1 < size of x), *)
(* every index at which a thread reads x, y or timestamp lies in           *)
(* [0, size of x) and in the thread's own trajectory's range.              *)
C9_ReadsInRange ==
    (/\ Launched
     /\ \A g \in Groups : GroupValid(g))
        => \A t \in DOMAIN thr : \A r \in reads[t] :
              /\ 0 <= r[2] /\ r[2] < size(x)
              /\ offset.data[t] <= r[2]
              /\ r[2] <= offset.data[t] + length.data[t] - 1

-----------------------------------------------------------------------------
(* C10, as claimed: a trajectory that is not degenerate (two or more       *)
(* points, non-zero floored elapsed time) gets a non-negative distance and *)
(* a non-negative speed, also when its last timestamp is earlier than its  *)
(* first.                                                                  *)
C10_NonNegativeOutputs ==
    \A t \in Groups :
        (/\ Finished(t) /\ GroupValid(t)
         /\ length.data[t] >= 2
         /\ FloorMs(timestamp.type, Elapsed(t)) # 0)
            => cols[1][t][1].val >= 0 /\ cols[2][t][1].val >= 0

(* C10, amended: a trajectory that is not degenerate gets a distance that  *)
(* is never negative, and a speed that is never negative when its last     *)
(* timestamp is later than its first and zero or negative when it is       *)
(* earlier; a negative distance appears only for a degenerate trajectory,  *)
(* and is -2.0 or -3.0.                                                    *)
C10_SignOfOutputs ==
    \A t \in Groups :
        (Finished(t) /\ GroupValid(t)) =>
            LET degenerate ==
                    \/ length.data[t] < 2
                    \/ FloorMs(timestamp.type, Elapsed(t)) = 0
                dist == cols[1][t][1].val
                spd == cols[2][t][1].val
            IN  /\ ~degenerate =>
                    /\ ~(dist < 0)
                    /\ Elapsed(t) > 0 => ~(spd < 0)
                    /\ Elapsed(t) < 0 => spd <= 0
                /\ dist < 0 =>
                    /\ degenerate
                    /\ dist \in {(-2) * Fx, (-3) * Fx}

(* a trajectory whose last timestamp is the earlier one: negative speed *)
C10_Witness ==
    \E t \in Groups :
        /\ Finished(t) /\ GroupValid(t)
        /\ length.data[t] >= 2 /\ Elapsed(t) < 0
        /\ cols[1][t][1].val > 0 /\ cols[2][t][1].val < 0

=============================================================================
